---- MODULE Spec2Model ----
(***************************************************************************)
(* A model of the win-open crate (src/src/lib.rs, shell.rs, error.rs):     *)
(* shell resolution through the process-wide OnceLock, the command         *)
(* builders, and the synchronous / detached runners.                       *)
(*                                                                         *)
(* Strings are sequences of one-character strings, so that quoting, case   *)
(* conversion and lossy conversion are computed character by character.    *)
(***************************************************************************)
EXTENDS Naturals, Sequences, FiniteSets, TLC

\* ------------------------------------------------------------------ bounds
\* number of OS threads calling into the library concurrently
NumThreads == 2
\* longest path / application name enumerated for the command builders
MaxLen == 2
\* longest "other" string (not derived from an alias) handed to the parser
MaxOtherLen == 2

Threads == 1..NumThreads

None == "None"

\* ------------------------------------------------------------ characters
LowerLetters ==
    <<"a","b","c","d","e","f","g","h","i","j","k","l","m",
      "n","o","p","q","r","s","t","u","v","w","x","y","z">>
UpperLetters ==
    <<"A","B","C","D","E","F","G","H","I","J","K","L","M",
      "N","O","P","Q","R","S","T","U","V","W","X","Y","Z">>

\* u8::to_ascii_uppercase: only a..z change, every other unit is kept
AsciiUpperChar(c) ==
    IF \E k \in DOMAIN LowerLetters : LowerLetters[k] = c
    THEN UpperLetters[CHOOSE k \in DOMAIN LowerLetters : LowerLetters[k] = c]
    ELSE c

\* str::to_ascii_uppercase
to_ascii_uppercase(s) == [k \in DOMAIN s |-> AsciiUpperChar(s[k])]

\* an unpaired UTF-16 surrogate held by a Windows OsStr, and U+FFFD
Surrogate == "<U+D800>"
Replacement == "<U+FFFD>"

\* OsStr::to_string_lossy: every unit that is not valid Unicode becomes U+FFFD
to_string_lossy(s) ==
    [k \in DOMAIN s |-> IF s[k] = Surrogate THEN Replacement ELSE s[k]]

Quote == "\""

\* ---------------------------------------------------------------- shell.rs
Powershell == "Powershell"
Nushell == "Nushell"
Cmd == "Cmd"
WindowsShell == {Powershell, Nushell, Cmd}

s_pwsh == <<"p","w","s","h">>
s_nu == <<"n","u">>
s_cmd == <<"c","m","d">>

\* mutant of as_str: Command Prompt is named by its file, cmd.exe
as_str_exe(sh) ==
    CASE sh = Powershell -> s_pwsh
      [] sh = Nushell -> s_nu
      [] sh = Cmd -> s_cmd \o <<".","e","x","e">>

\* WindowsShell::as_str
as_str(sh) ==
    CASE sh = Powershell -> s_pwsh
      [] sh = Nushell -> s_nu
      [] sh = Cmd -> s_cmd

\* ---------------------------------------------------------------- error.rs
SHELL_NOT_FOUND == "SHELL_NOT_FOUND"
COMMAND_FAILED == "COMMAND_FAILED"
NO_LAUNCHER == "NO_LAUNCHER"
IO == "IO"
ErrorKind == {SHELL_NOT_FOUND, COMMAND_FAILED, NO_LAUNCHER, IO}

\* Error::new: an empty message goes through empty_message, which stores ""
ErrorNew(kind, message) == [kind |-> kind, message |-> message]

\* #[derive(PartialEq)] on the field-less enum ErrorKind: the same variant
ErrorKindEq(k, l) == k = l

\* mutant of ErrorEq: what #[derive(PartialEq)] on struct Error would compare
ErrorEq_derived(a, b) == ErrorKindEq(a.kind, b.kind) /\ a.message = b.message

\* impl PartialEq for Error, fn eq: self.kind == other.kind
ErrorEq(a, b) == ErrorKindEq(a.kind, b.kind)

Ok(v) == [ok |-> TRUE, val |-> v]
Err(e) == [ok |-> FALSE, err |-> e]

\* mutant of try_into: the input is matched as written, without upper-casing
try_into_case_sensitive(s) ==
    CASE s = <<"P","W","S","H">>
           \/ s = <<"P","O","W","E","R","S","H","E","L","L">> -> Ok(Powershell)
      [] s = <<"N","U">>
           \/ s = <<"N","U","S","H","E","L","L">> -> Ok(Nushell)
      [] s = <<"C","M","D">>
           \/ s = <<"C","O","M","M","A","N","D","P","R","O","M","P","T">> -> Ok(Cmd)
      [] OTHER -> Err(ErrorNew(SHELL_NOT_FOUND, s))

\* TryInto<WindowsShell> for &str
try_into(s) ==
    LET u == to_ascii_uppercase(s) IN
    CASE u = <<"P","W","S","H">>
           \/ u = <<"P","O","W","E","R","S","H","E","L","L">> -> Ok(Powershell)
      [] u = <<"N","U">>
           \/ u = <<"N","U","S","H","E","L","L">> -> Ok(Nushell)
      [] u = <<"C","M","D">>
           \/ u = <<"C","O","M","M","A","N","D","P","R","O","M","P","T">> -> Ok(Cmd)
      [] OTHER -> Err(ErrorNew(SHELL_NOT_FOUND, s))

\* FromStr for WindowsShell
from_str(s) == try_into(s)

\* ------------------------------------------------------------------ lib.rs
CREATE_NO_WINDOW == 134217728
CREATE_NEW_PROCESS_GROUP == 512

\* Command::arg and Command::raw_arg (the latter bypasses std's escaping)
Arg(s) == [raw |-> FALSE, s |-> s]
RawArg(s) == [raw |-> TRUE, s |-> s]

\* Command::new(program), then the builder calls
Command(program, args, flags) ==
    [program |-> program, args |-> args, creation_flags |-> flags]

\* a call either returns a value or panics with a message
Returned(v) == [panic |-> FALSE, val |-> v]
Panic(msg) == [panic |-> TRUE, msg |-> msg]

\* fn wrap_in_quotes: OsString "\"" + path + "\""
wrap_in_quotes(path) == <<Quote>> \o path \o <<Quote>>

\* fn wrap_in_quotes_string: format!("\"{}\"", path.to_string_lossy())
wrap_in_quotes_string(path) == <<Quote>> \o to_string_lossy(path) \o <<Quote>>

s_NoProfile == <<"-","N","o","P","r","o","f","i","l","e">>
s_Command == <<"-","C","o","m","m","a","n","d">>
s_StartProcess == <<"S","t","a","r","t","-","P","r","o","c","e","s","s">>
s_dash_c == <<"-","c">>
s_open_ == <<"o","p","e","n"," ">>
s_slash_c == <<"/","c">>
s_start == <<"s","t","a","r","t">>
s_empty_quotes == <<Quote, Quote>>

\* mutant of commands: no launcher is offered for the resolved shell
commands_none(sh, path) == Returned(<<>>)

\* pub fn commands(path) -> Vec<Command>, given what detect_shell() returned
commands(sh, path) ==
    LET shell == as_str(sh) IN
    CASE shell = s_pwsh ->
           Returned(<< Command(shell,
                      << Arg(s_NoProfile), Arg(s_Command), Arg(s_StartProcess),
                         Arg(wrap_in_quotes(path)) >>,
                      CREATE_NO_WINDOW) >>)
      [] shell = s_nu ->
           Returned(<< Command(shell,
                      << Arg(s_dash_c),
                         Arg(s_open_ \o wrap_in_quotes_string(path)) >>,
                      CREATE_NO_WINDOW) >>)
      [] shell = s_cmd ->
           Returned(<< Command(shell,
                      << Arg(s_slash_c), Arg(s_start), RawArg(s_empty_quotes),
                         RawArg(wrap_in_quotes(path)) >>,
                      CREATE_NO_WINDOW) >>)
      [] OTHER -> Panic("No supported shell detected.")

\* mutant of with_command: start is given the quoted path as its first argument
with_command_no_title(sh, path, app) ==
    LET shell == as_str(sh) IN
    CASE shell = s_pwsh ->
           Returned(Command(shell,
                   << Arg(s_NoProfile), Arg(s_Command), Arg(s_StartProcess),
                      Arg(wrap_in_quotes(path)), Arg(wrap_in_quotes(app)) >>,
                   CREATE_NO_WINDOW))
      [] shell = s_nu ->
           Returned(Command(shell,
                   << Arg(s_dash_c),
                      Arg(s_open_ \o wrap_in_quotes_string(path) \o <<" ">>
                            \o wrap_in_quotes_string(app)) >>,
                   CREATE_NO_WINDOW))
      [] shell = s_cmd ->
           Returned(Command(shell,
                   << Arg(s_slash_c), Arg(s_start),
                      RawArg(wrap_in_quotes(path)), RawArg(wrap_in_quotes(app)) >>,
                   CREATE_NO_WINDOW))
      [] OTHER -> Panic("No supported shell detected.")

\* pub fn with_command(path, app) -> Command; app is a String (valid Unicode)
with_command(sh, path, app) ==
    LET shell == as_str(sh) IN
    CASE shell = s_pwsh ->
           Returned(Command(shell,
                   << Arg(s_NoProfile), Arg(s_Command), Arg(s_StartProcess),
                      Arg(wrap_in_quotes(path)), Arg(wrap_in_quotes(app)) >>,
                   CREATE_NO_WINDOW))
      [] shell = s_nu ->
           Returned(Command(shell,
                   << Arg(s_dash_c),
                      Arg(s_open_ \o wrap_in_quotes_string(path) \o <<" ">>
                            \o wrap_in_quotes_string(app)) >>,
                   CREATE_NO_WINDOW))
      [] shell = s_cmd ->
           Returned(Command(shell,
                   << Arg(s_slash_c), Arg(s_start), RawArg(s_empty_quotes),
                      RawArg(wrap_in_quotes(path)), RawArg(wrap_in_quotes(app)) >>,
                   CREATE_NO_WINDOW))
      [] OTHER -> Panic("No supported shell detected.")

\* IntoResult::into_result for io::Result<ExitStatus>; r is Ok(status) or Err(io)
into_result(r, cmd) ==
    IF r.ok
    THEN IF r.val = "success"
         THEN Ok("unit")
         ELSE Err(ErrorNew(COMMAND_FAILED, <<cmd, r.val>>))
    ELSE Err(ErrorNew(IO, r.err))

\* mutant of LastErrResult: the recorded error is dropped
LastErrResult_dropped(last) == Err(ErrorNew(NO_LAUNCHER, ""))

\* last_err.map_or_else(|| Error::new(NO_LAUNCHER, ""), |err| Error::new(IO, err))
LastErrResult(last) ==
    IF last = None
    THEN Err(ErrorNew(NO_LAUNCHER, ""))
    ELSE Err(ErrorNew(IO, last))

\* ------------------------------------------------------------- environment
\* The machine is not part of the program's state: whether a shell is installed
\* and works can change at any time, so each process the program runs draws its
\* outcome when it is run. A probe exits 0, exits non-zero, or is not created
\* (an io::Error).
ProbeOutcomes == {"success", "failure", "not_found"}
\* ExitStatus of a child that was created, and io::Errors of one that was not
ExitStatuses == {"success", "failure"}
IoErrors == {"not_found", "access_denied"}

\* the public entry points (the shell backend, feature "shellexecute" off)
RunnerOps == {"that", "with", "that_detached", "with_detached"}
BuilderOps == {"commands", "with_command"}
Ops == RunnerOps \cup BuilderOps
DefaultOps == {"that", "that_detached", "commands"}

\* arguments used by the concurrent calls
CallPaths == {<<"a">>}
CallApps == {<<"f">>}

VARIABLES
    DETECTED_SHELL,  \* the OnceLock's value: None or a WindowsShell
    once,            \* the OnceLock's Once: "incomplete", "running", "complete"
    probes,          \* the probe processes run so far: <<[exe, outcome], ...>>
    pc,              \* per thread: where it is in its call
    op,              \* per thread: the entry point it called
    path,            \* per thread: argument path
    app,             \* per thread: argument app (None for the default forms)
    shell,           \* per thread: what detect_shell() returned to it
    cmds,            \* per thread: the invocation(s) built
    idx,             \* per thread: position of the for loop in cmds (1-based)
    last_err,        \* per thread: Option<io::Error>
    launched,        \* per thread: outcome of each process creation attempted
    child,           \* per thread: the child created: none/running/exit status
    result,          \* per thread: the Result returned, None before that
    fn_in,           \* the argument of a function applied on its own
    fn_out,          \* [fn, ret]: the function applied and what it returned
    handle,          \* per worker thread: the JoinHandle a background call gave
    joined           \* per worker thread: what join() on its handle returned

vars == <<DETECTED_SHELL, once, probes, pc, op, path, app, shell, cmds,
          idx, last_err, launched, child, result, fn_in, fn_out,
          handle, joined>>

shared == <<DETECTED_SHELL, once, probes>>
pure == <<fn_in, fn_out>>
handles == <<handle, joined>>
locals == <<op, path, app, shell, cmds, idx, last_err, launched, child, result>>

\* no background call has produced a handle for this thread
NoHandle == [state |-> "none", fn |-> "none"]

InitProgram ==
    /\ DETECTED_SHELL = None
    /\ once = "incomplete"
    /\ probes = <<>>
    /\ pc = [t \in Threads |-> "idle"]
    /\ op = [t \in Threads |-> None]
    /\ path = [t \in Threads |-> None]
    /\ app = [t \in Threads |-> None]
    /\ shell = [t \in Threads |-> None]
    /\ cmds = [t \in Threads |-> <<>>]
    /\ idx = [t \in Threads |-> 1]
    /\ last_err = [t \in Threads |-> None]
    /\ launched = [t \in Threads |-> <<>>]
    /\ child = [t \in Threads |-> "none"]
    /\ result = [t \in Threads |-> None]
    /\ handle = [t \in Threads |-> NoHandle]
    /\ joined = [t \in Threads |-> None]

\* no function has been applied on its own yet
NotCalled == [fn |-> "none"]

Init ==
    /\ InitProgram
    /\ fn_in = None
    /\ fn_out = NotCalled

\* a thread enters one of the entry points; each begins with commands(path) or
\* with_command(path, app), whose first statement is detect_shell()
CallWith(t, paths, apps) ==
    /\ pc[t] = "idle"
    /\ UNCHANGED <<pure, handles>>
    /\ \E o \in Ops, p \in paths, a \in apps :
         /\ op' = [op EXCEPT ![t] = o]
         /\ path' = [path EXCEPT ![t] = p]
         /\ app' = [app EXCEPT ![t] = IF o \in DefaultOps THEN None ELSE a]
    /\ pc' = [pc EXCEPT ![t] = "detect_shell"]
    /\ UNCHANGED shared
    /\ UNCHANGED <<shell, cmds, idx, last_err, launched, child, result>>

Call(t) == CallWith(t, CallPaths, CallApps)

\* where each entry point continues once its invocation is built
AfterBuild(o) ==
    CASE o = "that" -> "that_loop"
      [] o = "with" -> "with_status"
      [] o = "that_detached" -> "that_detached_loop"
      [] o = "with_detached" -> "with_detached_spawn"
      [] o \in BuilderOps -> "done"

\* the rest of commands / with_command after detect_shell() returned sh to t
Built(t, sh) ==
    LET b == IF op[t] \in DefaultOps
             THEN commands(sh, path[t])
             ELSE with_command(sh, path[t], app[t])
    IN  /\ shell' = [shell EXCEPT ![t] = sh]
        /\ IF b.panic
           THEN /\ pc' = [pc EXCEPT ![t] = "panic"]
                /\ UNCHANGED cmds
           ELSE /\ pc' = [pc EXCEPT ![t] = AfterBuild(op[t])]
                /\ cmds' = [cmds EXCEPT ![t] =
                              IF op[t] \in DefaultOps THEN b.val ELSE <<b.val>>]
        /\ UNCHANGED <<op, path, app, idx, last_err, launched, child, result>>

\* mutant of get_or_init: no cache, every call resolves the shell again
get_or_init_uncached(t) ==
    /\ pc[t] = "detect_shell"
    /\ UNCHANGED <<pure, handles>>
    /\ once # "running"
    /\ once' = "running"
    /\ pc' = [pc EXCEPT ![t] = "probe_pwsh"]
    /\ UNCHANGED <<DETECTED_SHELL, probes>>
    /\ UNCHANGED locals

\* mutant of get_or_init: check-then-set without the Once, so that every thread
\* that finds the cell empty runs the probes and stores its own answer
get_or_init_racy(t) ==
    /\ pc[t] = "detect_shell"
    /\ UNCHANGED <<pure, handles>>
    /\ \/ /\ DETECTED_SHELL # None
          /\ Built(t, DETECTED_SHELL)
          /\ UNCHANGED shared
       \/ /\ DETECTED_SHELL = None
          /\ once' = "running"
          /\ pc' = [pc EXCEPT ![t] = "probe_pwsh"]
          /\ UNCHANGED <<DETECTED_SHELL, probes>>
          /\ UNCHANGED locals

\* fn detect_shell: DETECTED_SHELL.get_or_init(..). An initialized cell is read;
\* an empty one makes this thread the initializer; while another thread
\* initializes, Once blocks the caller (no step is enabled).
get_or_init(t) ==
    /\ pc[t] = "detect_shell"
    /\ UNCHANGED <<pure, handles>>
    /\ \/ /\ once = "complete"
          /\ Built(t, DETECTED_SHELL)
          /\ UNCHANGED shared
       \/ /\ once = "incomplete"
          /\ once' = "running"
          /\ pc' = [pc EXCEPT ![t] = "probe_pwsh"]
          /\ UNCHANGED <<DETECTED_SHELL, probes>>
          /\ UNCHANGED locals

\* the initializer's closure returns: Ok(shell) is stored, Err panics (the Once
\* is left uninitialized again, as call_once_force does for a poisoned cell)
InitDone(t, r) ==
    IF r.ok
    THEN /\ DETECTED_SHELL' = r.val
         /\ once' = "complete"
         /\ Built(t, r.val)
    ELSE /\ once' = "incomplete"
         /\ pc' = [pc EXCEPT ![t] = "panic"]
         /\ UNCHANGED DETECTED_SHELL
         /\ UNCHANGED locals

\* mutant of ProbePwsh: is_ok() instead of status.success(), so a PowerShell
\* that exits non-zero counts as usable
ProbePwsh_is_ok(t) ==
    /\ pc[t] = "probe_pwsh"
    /\ UNCHANGED <<pure, handles>>
    /\ \E o \in ProbeOutcomes :
         /\ probes' = Append(probes, [exe |-> s_pwsh, outcome |-> o])
         /\ IF o \in ExitStatuses
            THEN InitDone(t, try_into(s_pwsh))
            ELSE /\ pc' = [pc EXCEPT ![t] = "probe_nu"]
                 /\ UNCHANGED <<DETECTED_SHELL, once>>
                 /\ UNCHANGED locals

\* fn get_shell, first probe: pwsh -Command $PSVersionTable.PSVersion
ProbePwsh(t) ==
    /\ pc[t] = "probe_pwsh"
    /\ UNCHANGED <<pure, handles>>
    /\ \E o \in ProbeOutcomes :
         /\ probes' = Append(probes, [exe |-> s_pwsh, outcome |-> o])
         /\ IF o = "success"
            THEN InitDone(t, try_into(s_pwsh))
            ELSE /\ pc' = [pc EXCEPT ![t] = "probe_nu"]
                 /\ UNCHANGED <<DETECTED_SHELL, once>>
                 /\ UNCHANGED locals

\* fn get_shell, second probe: nu -c version; otherwise "cmd".try_into()
ProbeNu(t) ==
    /\ pc[t] = "probe_nu"
    /\ UNCHANGED <<pure, handles>>
    /\ \E o \in ProbeOutcomes :
         /\ probes' = Append(probes, [exe |-> s_nu, outcome |-> o])
         /\ IF o = "success"
            THEN InitDone(t, try_into(s_nu))
            ELSE InitDone(t, try_into(s_cmd))

\* CommandExt::spawn_detached: stdio is nulled and the creation flags are
\* replaced by CREATE_NEW_PROCESS_GROUP | CREATE_NO_WINDOW (disjoint bits)
spawn_detached_flags(cmd) ==
    [cmd EXCEPT !.creation_flags = CREATE_NEW_PROCESS_GROUP + CREATE_NO_WINDOW]

\* process creation by Command::status / Command::spawn: a child, or an io::Error
SpawnOutcomes == {"spawned"} \cup IoErrors

\* pub fn that, loop body up to process creation: cmd.status_without_output()
\* creates the child (then waits, see ThatWait); Err(err) => last_err = Some(err)
ThatSpawn(t) ==
    /\ pc[t] = "that_loop"
    /\ UNCHANGED <<pure, handles>>
    /\ idx[t] <= Len(cmds[t])
    /\ \E o \in SpawnOutcomes :
         /\ launched' = [launched EXCEPT ![t] = Append(@, o)]
         /\ IF o = "spawned"
            THEN /\ child' = [child EXCEPT ![t] = "running"]
                 /\ pc' = [pc EXCEPT ![t] = "that_wait"]
                 /\ UNCHANGED <<idx, last_err>>
            ELSE /\ last_err' = [last_err EXCEPT ![t] = o]
                 /\ idx' = [idx EXCEPT ![t] = @ + 1]
                 /\ UNCHANGED <<child, pc>>
    /\ UNCHANGED shared
    /\ UNCHANGED <<op, path, app, shell, cmds, result>>

\* mutant of ThatWait: a non-success exit status moves on to the next candidate
ThatWait_continue(t) ==
    /\ pc[t] = "that_wait"
    /\ UNCHANGED <<pure, handles>>
    /\ child[t] \in ExitStatuses
    /\ IF child[t] = "success"
       THEN /\ result' = [result EXCEPT ![t] = Ok("unit")]
            /\ pc' = [pc EXCEPT ![t] = "done"]
            /\ UNCHANGED idx
       ELSE /\ idx' = [idx EXCEPT ![t] = @ + 1]
            /\ pc' = [pc EXCEPT ![t] = "that_loop"]
            /\ UNCHANGED result
    /\ UNCHANGED shared
    /\ UNCHANGED <<op, path, app, shell, cmds, last_err, launched, child>>

\* pub fn that: the child has exited; Ok(status) => return Ok(status).into_result(cmd)
ThatWait(t) ==
    /\ pc[t] = "that_wait"
    /\ UNCHANGED <<pure, handles>>
    /\ child[t] \in ExitStatuses
    /\ result' = [result EXCEPT ![t] = into_result(Ok(child[t]), cmds[t][idx[t]])]
    /\ pc' = [pc EXCEPT ![t] = "done"]
    /\ UNCHANGED shared
    /\ UNCHANGED <<op, path, app, shell, cmds, idx, last_err, launched, child>>

\* pub fn that, after the loop: Err(last_err.map_or_else(..))
ThatLoopEnd(t) ==
    /\ pc[t] = "that_loop"
    /\ UNCHANGED <<pure, handles>>
    /\ idx[t] > Len(cmds[t])
    /\ result' = [result EXCEPT ![t] = LastErrResult(last_err[t])]
    /\ pc' = [pc EXCEPT ![t] = "done"]
    /\ UNCHANGED shared
    /\ UNCHANGED <<op, path, app, shell, cmds, idx, last_err, launched, child>>

\* mutant of WithSpawn: a launch failure is reported the way the loops report
\* an empty candidate list
WithSpawn_nolauncher(t) ==
    /\ pc[t] = "with_status"
    /\ UNCHANGED <<pure, handles>>
    /\ \E o \in SpawnOutcomes :
         /\ launched' = [launched EXCEPT ![t] = Append(@, o)]
         /\ IF o = "spawned"
            THEN /\ child' = [child EXCEPT ![t] = "running"]
                 /\ pc' = [pc EXCEPT ![t] = "with_wait"]
                 /\ UNCHANGED result
            ELSE /\ result' = [result EXCEPT ![t] = LastErrResult(None)]
                 /\ pc' = [pc EXCEPT ![t] = "done"]
                 /\ UNCHANGED child
    /\ UNCHANGED shared
    /\ UNCHANGED <<op, path, app, shell, cmds, idx, last_err>>

\* pub fn with: cmd.status_without_output() up to process creation; an io::Error
\* goes straight through into_result
WithSpawn(t) ==
    /\ pc[t] = "with_status"
    /\ UNCHANGED <<pure, handles>>
    /\ \E o \in SpawnOutcomes :
         /\ launched' = [launched EXCEPT ![t] = Append(@, o)]
         /\ IF o = "spawned"
            THEN /\ child' = [child EXCEPT ![t] = "running"]
                 /\ pc' = [pc EXCEPT ![t] = "with_wait"]
                 /\ UNCHANGED result
            ELSE /\ result' = [result EXCEPT ![t] = into_result(Err(o), cmds[t][1])]
                 /\ pc' = [pc EXCEPT ![t] = "done"]
                 /\ UNCHANGED child
    /\ UNCHANGED shared
    /\ UNCHANGED <<op, path, app, shell, cmds, idx, last_err>>

\* pub fn with: the child has exited; its status goes through into_result
WithWait(t) ==
    /\ pc[t] = "with_wait"
    /\ UNCHANGED <<pure, handles>>
    /\ child[t] \in ExitStatuses
    /\ result' = [result EXCEPT ![t] = into_result(Ok(child[t]), cmds[t][1])]
    /\ pc' = [pc EXCEPT ![t] = "done"]
    /\ UNCHANGED shared
    /\ UNCHANGED <<op, path, app, shell, cmds, idx, last_err, launched, child>>

\* mutant of ThatDetachedSpawn: the child is waited for, as status() does
ThatDetachedSpawn_waits(t) ==
    /\ pc[t] = "that_detached_loop"
    /\ UNCHANGED <<pure, handles>>
    /\ idx[t] <= Len(cmds[t])
    /\ cmds' = [cmds EXCEPT ![t][idx[t]] = spawn_detached_flags(@)]
    /\ \E o \in SpawnOutcomes :
         /\ launched' = [launched EXCEPT ![t] = Append(@, o)]
         /\ IF o = "spawned"
            THEN /\ child' = [child EXCEPT ![t] = "running"]
                 /\ pc' = [pc EXCEPT ![t] = "that_wait"]
                 /\ UNCHANGED <<idx, last_err>>
            ELSE /\ last_err' = [last_err EXCEPT ![t] = o]
                 /\ idx' = [idx EXCEPT ![t] = @ + 1]
                 /\ UNCHANGED <<child, pc>>
    /\ UNCHANGED result
    /\ UNCHANGED shared
    /\ UNCHANGED <<op, path, app, shell>>

\* pub fn that_detached, loop body: cmd.spawn_detached(); Ok(_) => return Ok(())
ThatDetachedSpawn(t) ==
    /\ pc[t] = "that_detached_loop"
    /\ UNCHANGED <<pure, handles>>
    /\ idx[t] <= Len(cmds[t])
    /\ cmds' = [cmds EXCEPT ![t][idx[t]] = spawn_detached_flags(@)]
    /\ \E o \in SpawnOutcomes :
         /\ launched' = [launched EXCEPT ![t] = Append(@, o)]
         /\ IF o = "spawned"
            THEN /\ child' = [child EXCEPT ![t] = "running"]
                 /\ result' = [result EXCEPT ![t] = Ok("unit")]
                 /\ pc' = [pc EXCEPT ![t] = "done"]
                 /\ UNCHANGED <<idx, last_err>>
            ELSE /\ last_err' = [last_err EXCEPT ![t] = o]
                 /\ idx' = [idx EXCEPT ![t] = @ + 1]
                 /\ UNCHANGED <<child, result, pc>>
    /\ UNCHANGED shared
    /\ UNCHANGED <<op, path, app, shell>>

\* pub fn that_detached, after the loop
ThatDetachedLoopEnd(t) ==
    /\ pc[t] = "that_detached_loop"
    /\ UNCHANGED <<pure, handles>>
    /\ idx[t] > Len(cmds[t])
    /\ result' = [result EXCEPT ![t] = LastErrResult(last_err[t])]
    /\ pc' = [pc EXCEPT ![t] = "done"]
    /\ UNCHANGED shared
    /\ UNCHANGED <<op, path, app, shell, cmds, idx, last_err, launched, child>>

\* pub fn with_detached: one spawn_detached(); Ok(_) => return Ok(()), and
\* Err(err) => last_err = Some(err), then Err(last_err.map_or_else(..))
WithDetachedSpawn(t) ==
    /\ pc[t] = "with_detached_spawn"
    /\ UNCHANGED <<pure, handles>>
    /\ cmds' = [cmds EXCEPT ![t][1] = spawn_detached_flags(@)]
    /\ \E o \in SpawnOutcomes :
         /\ launched' = [launched EXCEPT ![t] = Append(@, o)]
         /\ IF o = "spawned"
            THEN /\ child' = [child EXCEPT ![t] = "running"]
                 /\ result' = [result EXCEPT ![t] = Ok("unit")]
                 /\ UNCHANGED last_err
            ELSE /\ last_err' = [last_err EXCEPT ![t] = o]
                 /\ result' = [result EXCEPT ![t] = LastErrResult(o)]
                 /\ UNCHANGED child
    /\ pc' = [pc EXCEPT ![t] = "done"]
    /\ UNCHANGED shared
    /\ UNCHANGED <<op, path, app, shell, idx>>

\* a child process created by thread t's call exits, with either status
ChildExit(t) ==
    /\ child[t] = "running"
    /\ UNCHANGED <<pure, handles>>
    /\ \E s \in ExitStatuses : child' = [child EXCEPT ![t] = s]
    /\ UNCHANGED shared
    /\ UNCHANGED <<pc, op, path, app, shell, cmds, idx, last_err, launched, result>>

\* the call has returned to its caller; the thread is free for its next call
\* (the frame's locals are gone, a detached child is no longer followed)
Return(t) ==
    /\ pc[t] = "done"
    /\ UNCHANGED <<pure, handles>>
    /\ pc' = [pc EXCEPT ![t] = "idle"]
    /\ op' = [op EXCEPT ![t] = None]
    /\ path' = [path EXCEPT ![t] = None]
    /\ app' = [app EXCEPT ![t] = None]
    /\ shell' = [shell EXCEPT ![t] = None]
    /\ cmds' = [cmds EXCEPT ![t] = <<>>]
    /\ idx' = [idx EXCEPT ![t] = 1]
    /\ last_err' = [last_err EXCEPT ![t] = None]
    /\ launched' = [launched EXCEPT ![t] = <<>>]
    /\ child' = [child EXCEPT ![t] = "none"]
    /\ result' = [result EXCEPT ![t] = None]
    /\ UNCHANGED shared

Next ==
    \/ \E t \in Threads : Call(t)
    \/ \E t \in Threads : get_or_init(t)
    \/ \E t \in Threads : ProbePwsh(t)
    \/ \E t \in Threads : ProbeNu(t)
    \/ \E t \in Threads : ThatSpawn(t)
    \/ \E t \in Threads : ThatWait(t)
    \/ \E t \in Threads : ThatLoopEnd(t)
    \/ \E t \in Threads : WithSpawn(t)
    \/ \E t \in Threads : WithWait(t)
    \/ \E t \in Threads : ThatDetachedSpawn(t)
    \/ \E t \in Threads : ThatDetachedLoopEnd(t)
    \/ \E t \in Threads : WithDetachedSpawn(t)
    \/ \E t \in Threads : ChildExit(t)
    \/ \E t \in Threads : Return(t)

Spec == Init /\ [][Next]_vars

\* ------------------------------------------------- the parser on its own
SeqsUpTo(S, n) == UNION {[1..k -> S] : k \in 0..n}

s_powershell == <<"p","o","w","e","r","s","h","e","l","l">>
s_nushell == <<"n","u","s","h","e","l","l">>
s_commandprompt == <<"c","o","m","m","a","n","d","p","r","o","m","p","t">>
Aliases == {s_pwsh, s_powershell, s_nu, s_nushell, s_cmd, s_commandprompt}

\* a non-ASCII letter whose Unicode upper case is "S"
LongS == "<U+017F>"

\* every way of writing alias a in mixed case
CaseVariants(a) ==
    {[k \in DOMAIN a |-> IF k \in U THEN AsciiUpperChar(a[k]) ELSE a[k]] :
        U \in SUBSET DOMAIN a}

\* strings one edit away from an alias
NearMisses(a) ==
    {Append(a, " "), <<" ">> \o a, Tail(a), a \o a,
     [k \in DOMAIN a |-> IF a[k] = "s" THEN LongS ELSE a[k]],
     [k \in DOMAIN a |-> IF k = 1 THEN "x" ELSE a[k]]}

OtherChars == {"n", "U", "c", "M", "d", "x", " "}

ParseInputs ==
    UNION {CaseVariants(a) : a \in Aliases}
      \cup UNION {NearMisses(a) : a \in Aliases}
      \cup SeqsUpTo(OtherChars, MaxOtherLen)

InitParse ==
    /\ InitProgram
    /\ fn_in \in ParseInputs
    /\ fn_out = NotCalled

\* "...".try_into() on the input string
TryIntoCall ==
    /\ fn_out = NotCalled
    /\ fn_out' = [fn |-> "try_into", ret |-> try_into(fn_in)]
    /\ UNCHANGED <<fn_in, shared, pc, handles>>
    /\ UNCHANGED locals

\* "...".parse::<WindowsShell>() / WindowsShell::from_str on the input string
FromStrCall ==
    /\ fn_out = NotCalled
    /\ fn_out' = [fn |-> "from_str", ret |-> from_str(fn_in)]
    /\ UNCHANGED <<fn_in, shared, pc, handles>>
    /\ UNCHANGED locals

NextParse == TryIntoCall \/ FromStrCall

SpecParse == InitParse /\ [][NextParse]_vars

\* ------------------------------------------- the command builders on their own
\* path units: a letter, a space, a quote, an unpaired surrogate
PathChars == {"a", " ", Quote, Surrogate}
\* an app is a Rust String: valid Unicode only
AppChars == {"f", " "}

\* the path of the quoting example: C:\My Folder\file.txt
ExamplePath ==
    <<"C",":","\\","M","y"," ","F","o","l","d","e","r","\\",
      "f","i","l","e",".","t","x","t">>

BuildPaths == SeqsUpTo(PathChars, MaxLen) \cup {ExamplePath}
BuildApps == SeqsUpTo(AppChars, MaxLen)

\* the shell is what detect_shell() returns to the builder
InitBuild ==
    /\ InitProgram
    /\ fn_in \in [fn : {"commands"}, shell : WindowsShell, path : BuildPaths,
                  app : {<<>>}]
               \cup [fn : {"with_command"}, shell : WindowsShell,
                     path : BuildPaths, app : BuildApps]
    /\ fn_out = NotCalled

\* commands(path) with the resolved shell
CommandsCall ==
    /\ fn_out = NotCalled
    /\ fn_in.fn = "commands"
    /\ fn_out' = [fn |-> "commands", ret |-> commands(fn_in.shell, fn_in.path)]
    /\ UNCHANGED <<fn_in, shared, pc, handles>>
    /\ UNCHANGED locals

\* with_command(path, app) with the resolved shell
WithCommandCall ==
    /\ fn_out = NotCalled
    /\ fn_in.fn = "with_command"
    /\ fn_out' = [fn |-> "with_command",
                  ret |-> with_command(fn_in.shell, fn_in.path, fn_in.app)]
    /\ UNCHANGED <<fn_in, shared, pc, handles>>
    /\ UNCHANGED locals

NextBuild == CommandsCall \/ WithCommandCall

SpecBuild == InitBuild /\ [][NextBuild]_vars

\* ------------------------------------- one caller, paths of every kind
\* the URL of the end-to-end example: http://example.org
UrlPath ==
    <<"h","t","t","p",":","/","/","e","x","a","m","p","l","e",".","o","r","g">>

SeqPaths == BuildPaths \cup {UrlPath}
SeqApps == {<<"f">>}

\* a single thread calls the entry points one after the other
Caller == CHOOSE t \in Threads : \A u \in Threads : t <= u

CallSeq == CallWith(Caller, SeqPaths, SeqApps)

NextSeq ==
    \/ CallSeq
    \/ get_or_init(Caller)
    \/ ProbePwsh(Caller)
    \/ ProbeNu(Caller)
    \/ ThatSpawn(Caller)
    \/ ThatWait(Caller)
    \/ ThatLoopEnd(Caller)
    \/ WithSpawn(Caller)
    \/ WithWait(Caller)
    \/ ThatDetachedSpawn(Caller)
    \/ ThatDetachedLoopEnd(Caller)
    \/ WithDetachedSpawn(Caller)
    \/ ChildExit(Caller)
    \/ Return(Caller)

SpecSeq == Init /\ [][NextSeq]_vars

\* ------------------------------------------------ the background functions
\* that_in_background / with_in_background: the calling thread spawns worker
\* threads (Threads) that run that / with, and joins their handles.
MainThread == NumThreads + 1
BgPaths == {<<"a", Surrogate>>}
BgApps == {<<"f">>}

\* path.as_ref().to_os_string(): an owned copy of the same wide units
to_os_string(s) == [k \in DOMAIN s |-> s[k]]

InitBg ==
    /\ DETECTED_SHELL = None
    /\ once = "incomplete"
    /\ probes = <<>>
    /\ pc = [t \in Threads \cup {MainThread} |->
               IF t = MainThread THEN "idle" ELSE "unborn"]
    /\ op = [t \in Threads |-> None]
    /\ path = [t \in Threads |-> None]
    /\ app = [t \in Threads |-> None]
    /\ shell = [t \in Threads |-> None]
    /\ cmds = [t \in Threads |-> <<>>]
    /\ idx = [t \in Threads |-> 1]
    /\ last_err = [t \in Threads |-> None]
    /\ launched = [t \in Threads |-> <<>>]
    /\ child = [t \in Threads |-> "none"]
    /\ result = [t \in Threads |-> None]
    /\ handle = [t \in Threads |-> NoHandle]
    /\ joined = [t \in Threads |-> None]
    /\ fn_in = None
    /\ fn_out = NotCalled

\* std::thread::spawn(|| f(p, a)): thread w (threads are numbered in the order
\* of their creation) starts at the first statement of the closure, the call
\* of f, and the caller gets its JoinHandle and goes on
thread_spawn(w, f, p, a, h) ==
    /\ pc[w] = "unborn"
    /\ \A u \in Threads : u < w => pc[u] # "unborn"
    /\ pc' = [pc EXCEPT ![w] = "detect_shell"]
    /\ op' = [op EXCEPT ![w] = f]
    /\ path' = [path EXCEPT ![w] = p]
    /\ app' = [app EXCEPT ![w] = a]
    /\ handle' = [handle EXCEPT ![w] = h]
    /\ UNCHANGED <<shell, cmds, idx, last_err, launched, child, result>>
    /\ UNCHANGED <<shared, pure, joined>>

\* pub fn that_in_background(path): spawn(|| that(path.to_os_string()))
that_in_background(w) ==
    /\ pc[MainThread] = "idle"
    /\ \E p \in BgPaths :
         thread_spawn(w, "that", to_os_string(p), None,
                      [state |-> "held", fn |-> "that_in_background",
                       path |-> p, app |-> None])

\* pub fn with_in_background(path, app): spawn(|| with(path.to_os_string(), app.into()))
with_in_background(w) ==
    /\ pc[MainThread] = "idle"
    /\ \E p \in BgPaths, a \in BgApps :
         thread_spawn(w, "with", to_os_string(p), a,
                      [state |-> "held", fn |-> "with_in_background",
                       path |-> p, app |-> a])

\* JoinHandle::join is called on a handle the caller holds: the caller waits
JoinCall(w) ==
    /\ pc[MainThread] = "idle"
    /\ handle[w].state = "held"
    /\ handle' = [handle EXCEPT ![w].state = "joining"]
    /\ pc' = [pc EXCEPT ![MainThread] = "join"]
    /\ UNCHANGED joined
    /\ UNCHANGED <<shared, pure, locals>>

\* mutant of JoinReturn: the handle gives a value as soon as the worker has
\* launched something, as if it reported the launch and not the call's Result
JoinReturn_early(w) ==
    /\ pc[MainThread] = "join"
    /\ handle[w].state = "joining"
    /\ launched[w] # <<>>
    /\ joined' = [joined EXCEPT ![w] =
                    IF pc[w] = "done" THEN Returned(result[w])
                                      ELSE Returned(Ok("unit"))]
    /\ handle' = [handle EXCEPT ![w].state = "joined"]
    /\ pc' = [pc EXCEPT ![MainThread] = "idle"]
    /\ UNCHANGED <<shared, pure, locals>>

\* JoinHandle::join returns once the worker's closure has finished: Ok(the
\* closure's value), or Err when the worker panicked
JoinReturn(w) ==
    /\ pc[MainThread] = "join"
    /\ handle[w].state = "joining"
    /\ pc[w] \in {"done", "panic"}
    /\ joined' = [joined EXCEPT ![w] =
                    IF pc[w] = "done" THEN Returned(result[w])
                                      ELSE Panic("worker panicked")]
    /\ handle' = [handle EXCEPT ![w].state = "joined"]
    /\ pc' = [pc EXCEPT ![MainThread] = "idle"]
    /\ UNCHANGED <<shared, pure, locals>>

NextBg ==
    \/ \E w \in Threads : that_in_background(w)
    \/ \E w \in Threads : with_in_background(w)
    \/ \E w \in Threads : JoinCall(w)
    \/ \E w \in Threads : JoinReturn(w)
    \/ \E w \in Threads : get_or_init(w)
    \/ \E w \in Threads : ProbePwsh(w)
    \/ \E w \in Threads : ProbeNu(w)
    \/ \E w \in Threads : ThatSpawn(w)
    \/ \E w \in Threads : ThatWait(w)
    \/ \E w \in Threads : ThatLoopEnd(w)
    \/ \E w \in Threads : WithSpawn(w)
    \/ \E w \in Threads : WithWait(w)
    \/ \E w \in Threads : ChildExit(w)

SpecBg == InitBg /\ [][NextBg]_vars

\* ------------------------------------------ equality of errors on its own
ErrMessages == {<<>>, <<"a">>, <<"b">>}
Errors == {ErrorNew(k, m) : k \in ErrorKind, m \in ErrMessages}

InitErr ==
    /\ InitProgram
    /\ fn_in \in [a : Errors, b : Errors]
    /\ fn_out = NotCalled

\* a == b on two errors
EqCall ==
    /\ fn_out = NotCalled
    /\ fn_out' = [fn |-> "eq", ret |-> ErrorEq(fn_in.a, fn_in.b)]
    /\ UNCHANGED <<fn_in, shared, pc, handles>>
    /\ UNCHANGED locals

\* a != b on two errors: PartialEq::ne, provided as !self.eq(other)
NeCall ==
    /\ fn_out = NotCalled
    /\ fn_out' = [fn |-> "ne", ret |-> ~ErrorEq(fn_in.a, fn_in.b)]
    /\ UNCHANGED <<fn_in, shared, pc, handles>>
    /\ UNCHANGED locals

NextErr == EqCall \/ NeCall

SpecErr == InitErr /\ [][NextErr]_vars

\* ------------------------------------------------------------------ claims
Last(s) == s[Len(s)]
AllIoErrors(s) == \A k \in DOMAIN s : s[k] \in IoErrors
IsErr(r, kind) == ~r.ok /\ r.err.kind = kind

\* C1: in that(), only a candidate that failed to launch with an I/O error is
\* followed by the next candidate (the loop stands right behind it); a candidate
\* that launched ends the call at once, with Ok when it exits successfully and
\* with CommandFailed when it exits with a non-success status, and no further
\* candidate is tried.
C1_ThatFallback ==
    \A t \in Threads : op[t] = "that" =>
        /\ \A k \in DOMAIN launched[t] :
              k < Len(launched[t]) => launched[t][k] \in IoErrors
        /\ pc[t] = "that_loop" =>
              /\ AllIoErrors(launched[t])
              /\ idx[t] = Len(launched[t]) + 1
              /\ launched[t] # <<>> => last_err[t] = Last(launched[t])
        /\ pc[t] = "that_wait" =>
              /\ Last(launched[t]) = "spawned"
              /\ idx[t] = Len(launched[t])
        /\ (pc[t] = "done" /\ launched[t] # <<>> /\ Last(launched[t]) = "spawned") =>
              /\ idx[t] = Len(launched[t])
              /\ child[t] \in ExitStatuses
              /\ child[t] = "success" => result[t].ok
              /\ child[t] = "failure" => IsErr(result[t], COMMAND_FAILED)
        /\ (pc[t] = "done" /\ AllIoErrors(launched[t])) =>
              /\ Len(launched[t]) = Len(cmds[t])
              /\ ~result[t].ok
              /\ result[t].err.kind # COMMAND_FAILED

\* one call of that() stands behind a candidate that failed to launch while
\* another has returned CommandFailed for a candidate that exited unsuccessfully
C1_Witness ==
    \E t, u \in Threads :
        /\ op[t] = "that" /\ pc[t] = "that_loop"
        /\ launched[t] = <<"not_found">> /\ idx[t] = 2
        /\ op[u] = "that" /\ pc[u] = "done"
        /\ launched[u] = <<"spawned">> /\ child[u] = "failure"
        /\ IsErr(result[u], COMMAND_FAILED)

\* C2: when every candidate of that() failed to launch with an I/O error, the
\* call returns an Io error carrying the last of these errors; it returns
\* NoLauncher only when no error was recorded.
C2_ThatAllIoErrors ==
    \A t \in Threads : (op[t] = "that" /\ pc[t] = "done") =>
        /\ (launched[t] # <<>> /\ AllIoErrors(launched[t])) =>
              /\ IsErr(result[t], IO)
              /\ result[t].err.message = Last(launched[t])
        /\ IsErr(result[t], NO_LAUNCHER) => last_err[t] = None /\ launched[t] = <<>>

C2_Witness ==
    \E t \in Threads :
        /\ op[t] = "that" /\ pc[t] = "done"
        /\ launched[t] = <<"access_denied">>
        /\ IsErr(result[t], IO)
        /\ result[t].err.message = "access_denied"

\* C3: with() attempts exactly one invocation; a launch failure is returned as
\* Io, a non-success exit status as CommandFailed, and never NoLauncher.
C3_WithSingleAttempt ==
    \A t \in Threads : op[t] = "with" =>
        /\ Len(launched[t]) <= 1
        /\ pc[t] = "done" =>
              /\ Len(launched[t]) = 1
              /\ launched[t][1] \in IoErrors =>
                    /\ IsErr(result[t], IO)
                    /\ result[t].err.message = launched[t][1]
              /\ (launched[t][1] = "spawned" /\ child[t] = "failure") =>
                    IsErr(result[t], COMMAND_FAILED)
              /\ (launched[t][1] = "spawned" /\ child[t] = "success") =>
                    result[t].ok
              /\ ~IsErr(result[t], NO_LAUNCHER)

C3_Witness ==
    \E t, u \in Threads :
        /\ op[t] = "with" /\ pc[t] = "done"
        /\ launched[t] = <<"not_found">> /\ IsErr(result[t], IO)
        /\ op[u] = "with" /\ pc[u] = "done"
        /\ launched[u] = <<"spawned">> /\ IsErr(result[u], COMMAND_FAILED)

\* C4: a detached call has returned Ok as soon as its child exists, whether the
\* child is still running, has exited successfully or has exited with a failure;
\* it returns an error only when no child was created (the spawn failed).
DetachedOps == {"that_detached", "with_detached"}
C4_DetachedSpawnOnly ==
    \A t \in Threads : op[t] \in DetachedOps =>
        /\ child[t] # "none" => pc[t] = "done" /\ result[t].ok
        /\ pc[t] = "done" =>
              /\ result[t].ok <=> (Last(launched[t]) = "spawned")
              /\ ~result[t].ok =>
                    /\ AllIoErrors(launched[t])
                    /\ IsErr(result[t], IO)
                    /\ result[t].err.message = Last(launched[t])

\* both detached forms have returned Ok; one child then exited with a failure,
\* the other is still running
C4_Witness ==
    \E t, u \in Threads :
        /\ op[t] = "that_detached" /\ pc[t] = "done"
        /\ result[t].ok /\ child[t] = "failure"
        /\ op[u] = "with_detached" /\ pc[u] = "done"
        /\ result[u].ok /\ child[u] = "running"

\* C5: the cache is written at most once: once DETECTED_SHELL holds a shell it
\* never changes and no probe is run again, and every shell a call gets from
\* detect_shell() is the cached one.
C5_CacheIdempotent ==
    /\ [](\A t \in Threads : shell[t] # None => shell[t] = DETECTED_SHELL)
    /\ [][DETECTED_SHELL # None =>
            /\ DETECTED_SHELL' = DETECTED_SHELL
            /\ probes' = probes]_vars

\* two calls of different entry points hold the cached shell at the same time
\* (at most one of them resolved it), and it is the shell the probes gave
C5_Witness ==
    \E t, u \in Threads :
        /\ op[t] = "with_detached" /\ op[u] = "commands"
        /\ shell[t] = Nushell /\ shell[u] = Nushell
        /\ DETECTED_SHELL = Nushell
        /\ Len(probes) = 2

\* C6: whatever the interleaving of concurrent first-time resolutions, no two
\* threads hold different resolved shells: each holds the one value the cell
\* was initialized with.
C6_ConcurrentResolution ==
    \A t, u \in Threads :
        (shell[t] # None /\ shell[u] # None) =>
            shell[t] = shell[u] /\ shell[t] \in WindowsShell

\* one thread is in the middle of the probes while another, which called before
\* the cache was set, waits in detect_shell()
C6_Witness ==
    \E t, u \in Threads :
        /\ pc[t] = "probe_nu" /\ pc[u] = "detect_shell"
        /\ once = "running" /\ DETECTED_SHELL = None

\* C7: the probes run in the order pwsh, nu; the resolved shell is PowerShell
\* iff the pwsh probe succeeded (and then nu was not probed), Nushell iff the
\* pwsh probe failed and the nu probe succeeded, Command Prompt iff both
\* failed; cmd is never probed.
C7_ProbeOrder ==
    /\ Len(probes) <= 2
    /\ \A k \in DOMAIN probes : probes[k].exe # s_cmd
    /\ Len(probes) >= 1 => probes[1].exe = s_pwsh
    /\ Len(probes) = 2 => probes[2].exe = s_nu /\ probes[1].outcome # "success"
    /\ DETECTED_SHELL # None =>
          /\ Len(probes) >= 1
          /\ DETECTED_SHELL = Powershell <=> probes[1].outcome = "success"
          /\ probes[1].outcome = "success" => Len(probes) = 1
          /\ probes[1].outcome # "success" =>
                /\ Len(probes) = 2
                /\ DETECTED_SHELL = Nushell <=> probes[2].outcome = "success"
                /\ DETECTED_SHELL = Cmd <=> probes[2].outcome # "success"

\* PowerShell was not found, Nushell exited non-zero: Command Prompt
C7_Witness ==
    /\ DETECTED_SHELL = Cmd
    /\ Len(probes) = 2
    /\ probes[1].outcome = "not_found"
    /\ probes[2].outcome = "failure"

\* c is letter d (given in lower case) in either case
SameLetter(c, d) ==
    \/ c = d
    \/ \E k \in DOMAIN LowerLetters : LowerLetters[k] = d /\ UpperLetters[k] = c

\* s is alias a written in any mix of upper and lower case
IsVariantOf(s, a) ==
    /\ Len(s) = Len(a)
    /\ \A k \in DOMAIN a : SameLetter(s[k], a[k])

\* C8: parsing (try_into or from_str) gives PowerShell for every case variant
\* of pwsh / powershell, Nushell for nu / nushell, Command Prompt for cmd /
\* commandprompt, and a ShellNotFound error for every other string.
C8_ParseAliases ==
    fn_out.fn \in {"try_into", "from_str"} =>
        LET s == fn_in
            r == fn_out.ret
            ps == IsVariantOf(s, s_pwsh) \/ IsVariantOf(s, s_powershell)
            nu == IsVariantOf(s, s_nu) \/ IsVariantOf(s, s_nushell)
            cp == IsVariantOf(s, s_cmd) \/ IsVariantOf(s, s_commandprompt)
        IN  /\ ps => r.ok /\ r.val = Powershell
            /\ nu => r.ok /\ r.val = Nushell
            /\ cp => r.ok /\ r.val = Cmd
            /\ ~(ps \/ nu \/ cp) => IsErr(r, SHELL_NOT_FOUND)

\* PowerShell in mixed case parsed through from_str
C8_Witness ==
    /\ fn_out.fn = "from_str"
    /\ fn_in = <<"P","o","w","e","r","S","h","e","l","l">>
    /\ fn_out.ret.ok
    /\ fn_out.ret.val = Powershell

\* the strings of a command's arguments, in order
ArgStrings(cmd) == [k \in DOMAIN cmd.args |-> cmd.args[k].s]
Quoted(s) == <<Quote>> \o s \o <<Quote>>
\* the one Command a builder call returned
BuiltCommand == IF fn_out.fn = "commands" THEN fn_out.ret.val[1] ELSE fn_out.ret.val

\* C9: with Command Prompt resolved, commands and with_command build the
\* arguments /c, start, "", "<path>" [, "<app>"]: the empty placeholder stands
\* immediately before the quoted path.
C9_CmdEmptyTitle ==
    (fn_out.fn \in {"commands", "with_command"} /\ fn_in.shell = Cmd) =>
        /\ ~fn_out.ret.panic
        /\ BuiltCommand.program = s_cmd
        /\ ArgStrings(BuiltCommand) =
             <<s_slash_c, s_start, <<Quote, Quote>>, Quoted(fn_in.path)>>
               \o (IF fn_out.fn = "with_command"
                   THEN <<Quoted(fn_in.app)>> ELSE <<>>)

C9_Witness ==
    /\ fn_out.fn = "with_command"
    /\ fn_in.shell = Cmd
    /\ fn_in.path = ExamplePath
    /\ ArgStrings(BuiltCommand)[3] = <<Quote, Quote>>
    /\ ArgStrings(BuiltCommand)[4] = Quoted(ExamplePath)

\* where the path and the app stand in a built command: an argument each for
\* PowerShell and Command Prompt, a part of the inline script for Nushell
PathArgument ==
    IF fn_in.shell = Nushell
    THEN SubSeq(BuiltCommand.args[2].s, Len(s_open_) + 1,
                Len(s_open_) + Len(fn_in.path) + 2)
    ELSE BuiltCommand.args[4].s
AppArgument ==
    IF fn_in.shell = Nushell
    THEN SubSeq(BuiltCommand.args[2].s, Len(s_open_) + Len(fn_in.path) + 4,
                Len(BuiltCommand.args[2].s))
    ELSE BuiltCommand.args[5].s

\* C10: for every shell variant the path in the built invocation is the input
\* path wrapped in one pair of double quotes, and so is the app when present.
C10_QuotingEveryShell ==
    fn_out.fn \in {"commands", "with_command"} =>
        /\ PathArgument = Quoted(fn_in.path)
        /\ fn_out.fn = "with_command" => AppArgument = Quoted(fn_in.app)

\* C11: with Nushell resolved, that(path) builds exactly one invocation,
\* nu -c 'open "<path>"' with CREATE_NO_WINDOW, and returns Ok iff that process
\* was created and exited successfully.
C11_NushellThat ==
    \A t \in Threads : (op[t] = "that" /\ shell[t] = Nushell) =>
        /\ cmds[t] = << Command(s_nu,
                                << Arg(s_dash_c),
                                   Arg(s_open_ \o Quoted(path[t])) >>,
                                CREATE_NO_WINDOW) >>
        /\ pc[t] = "done" => (result[t].ok <=> child[t] = "success")

\* the synchronous function a background function runs on its worker
SyncOf(f) == IF f = "that_in_background" THEN "that" ELSE "with"

\* what that / with return for the one invocation they built, given what
\* happened to it: it was not created, or it was created and exited
SyncResult(w) ==
    IF Last(launched[w]) = "spawned"
    THEN into_result(Ok(child[w]), cmds[w][1])
    ELSE Err(ErrorNew(IO, Last(launched[w])))

\* the threads that exist besides the caller
Born(p) == {w \in Threads : p[w] # "unborn"}

\* C12: every background call creates exactly one worker thread and hands its
\* handle back at once, before anything is launched; the worker runs that /
\* with on the call's inputs, join gives exactly the Result that call returned,
\* and the caller waits nowhere but in join.
C12_Background ==
    /\ [](/\ \A w \in Threads :
             /\ pc[w] = "unborn" <=> handle[w].state = "none"
             /\ handle[w].state # "none" =>
                   /\ op[w] = SyncOf(handle[w].fn)
                   /\ path[w] = handle[w].path
                   /\ app[w] = handle[w].app
             /\ handle[w].state = "joined" =>
                   /\ pc[w] = "done"
                   /\ joined[w] = Returned(result[w])
                   /\ result[w] = SyncResult(w)
             /\ handle[w].state # "joined" => joined[w] = None
          /\ pc[MainThread] \in {"idle", "join"}
          /\ pc[MainThread] = "join" <=>
                \E w \in Threads : handle[w].state = "joining")
    /\ [][/\ Cardinality(Born(pc') \ Born(pc)) <= 1
          /\ \A w \in Born(pc') \ Born(pc) :
                /\ pc[MainThread] = "idle" /\ pc'[MainThread] = "idle"
                /\ handle[w].state = "none" /\ handle'[w].state = "held"
                /\ launched'[w] = <<>> /\ result'[w] = None]_vars

\* the caller is free while the worker of a that_in_background call waits for
\* the process it launched, and has joined a with_in_background call whose
\* process exited unsuccessfully
C12_Witness ==
    \E w, v \in Threads :
        /\ pc[MainThread] = "idle"
        /\ handle[w].state = "held" /\ handle[w].fn = "that_in_background"
        /\ handle[w].path = <<"a", Surrogate>>
        /\ pc[w] = "that_wait" /\ child[w] = "running"
        /\ handle[v].state = "joined" /\ handle[v].fn = "with_in_background"
        /\ ~joined[v].panic /\ IsErr(joined[v].val, COMMAND_FAILED)

\* C13: two errors are equal iff they have the same kind, whatever their
\* messages (and unequal iff their kinds differ).
C13_ErrorEquality ==
    /\ fn_out.fn = "eq" => (fn_out.ret <=> fn_in.a.kind = fn_in.b.kind)
    /\ fn_out.fn = "ne" => (fn_out.ret <=> fn_in.a.kind # fn_in.b.kind)

\* two Io errors with different messages compared equal
C13_Witness ==
    /\ fn_out.fn = "eq"
    /\ fn_in.a = ErrorNew(IO, <<"a">>)
    /\ fn_in.b = ErrorNew(IO, <<"b">>)
    /\ fn_out.ret

\* the probes have run to the end: pwsh succeeded, or nu was probed as well
ProbesFinished ==
    \/ Len(probes) = 2
    \/ Len(probes) = 1 /\ probes[1].outcome = "success"

\* C14: shell resolution cannot fail. Whatever the probes gave, get_shell is Ok
\* with one of the three variants, so detect_shell never panics; the name of
\* the resolved variant is pwsh, nu or cmd, so commands and with_command never
\* panic either: no call ever ends in a panic, and every call that got a shell
\* has built its invocation.
C14_ResolutionCannotFail ==
    /\ \A t \in Threads : pc[t] # "panic"
    /\ ProbesFinished => (once = "complete" /\ DETECTED_SHELL \in WindowsShell)
    /\ DETECTED_SHELL # None =>
          /\ DETECTED_SHELL \in WindowsShell
          /\ as_str(DETECTED_SHELL) \in {s_pwsh, s_nu, s_cmd}
    /\ \A t \in Threads : shell[t] # None =>
          /\ Len(cmds[t]) = 1
          /\ cmds[t][1].program = as_str(shell[t])

\* both probes failed, Command Prompt was resolved by the fallback, and both
\* builders have returned an invocation of cmd
C14_Witness ==
    \E t, u \in Threads :
        /\ DETECTED_SHELL = Cmd
        /\ Len(probes) = 2
        /\ probes[1].outcome = "failure" /\ probes[2].outcome = "not_found"
        /\ op[t] = "commands" /\ pc[t] = "done" /\ cmds[t][1].program = s_cmd
        /\ op[u] = "with_command" /\ pc[u] = "done" /\ cmds[u][1].program = s_cmd

\* the entry points that end in Err(last_err.map_or_else(..))
LoopOps == {"that", "that_detached", "with_detached"}

\* C15: commands(path) returns exactly one invocation for every shell; so the
\* loops of that() and that_detached() launch once, an error is recorded
\* whenever the code after the loop is reached, and that(), that_detached() and
\* with_detached() return Ok, CommandFailed or Io, never NoLauncher.
C15_SingleCandidate ==
    \A t \in Threads :
        /\ (op[t] \in DefaultOps /\ shell[t] # None) => Len(cmds[t]) = 1
        /\ op[t] \in LoopOps =>
              /\ Len(launched[t]) <= 1
              /\ (pc[t] \in {"that_loop", "that_detached_loop"}
                    /\ idx[t] > Len(cmds[t])) =>
                    /\ last_err[t] \in IoErrors
                    /\ launched[t] = <<last_err[t]>>
              /\ pc[t] = "done" =>
                    /\ Len(launched[t]) = 1
                    /\ ~IsErr(result[t], NO_LAUNCHER)
                    /\ \/ result[t].ok
                       \/ IsErr(result[t], COMMAND_FAILED)
                       \/ IsErr(result[t], IO)

\* that() stands behind its loop with the one launch failure recorded, and
\* that_detached() has returned Io after its one candidate failed to launch
C15_Witness ==
    \E t, u \in Threads :
        /\ op[t] = "that" /\ pc[t] = "that_loop" /\ idx[t] = 2
        /\ Len(cmds[t]) = 1 /\ last_err[t] = "not_found"
        /\ op[u] = "that_detached" /\ pc[u] = "done"
        /\ launched[u] = <<"access_denied">> /\ IsErr(result[u], IO)

====
